---- MODULE Spec2Model ----
(***************************************************************************)
(* A model of dijkstra_tutorial.ipynb: the Graph class (add_vertex,        *)
(* add_edge), dijkstra(graph, start_vertex) and                            *)
(* shortest_path(graph, start_vertex, end_vertex).                         *)
(*                                                                         *)
(* Python values are modelled as follows.                                  *)
(*   - a vertex id is a string; None is the string "None";                 *)
(*   - a dict is a function whose DOMAIN is the dict's key set;            *)
(*   - a list is a sequence;                                               *)
(*   - a distance is a record [inf, val]: math.inf is [inf |-> TRUE], an   *)
(*     int n is [inf |-> FALSE, val |-> n];                                *)
(*   - an uncaught exception ends the call with pc = "raised" and its name *)
(*     in error.                                                           *)
(* One loop iteration is one step.  min() over a set returns the first     *)
(* minimal element in the set's iteration order, which Python leaves to    *)
(* the implementation: the model picks any minimal element.                *)
(***************************************************************************)
EXTENDS Integers, Sequences, FiniteSets, TLC

\* ---------------------------------------------------------------- bounds
\* most add_edge calls made on a graph built from the empty graph (Spec)
MaxEdges == 2
\* most edges of a graph a query is started on in SpecQuery
MaxQueryEdges == 4
\* the walk back of shortest_path is followed for at most MaxPath vertices (a
\* cycle in previous makes the loop append for ever)
MaxPath == 9

\* ------------------------------------------------------------ input sets
\* vertex ids passed to add_vertex / add_edge and to the queries in Spec
Ids == {"a", "b", "c"}
\* weights passed to add_edge in Spec (a negative one is the caller's
\* mistake: add_edge does not validate it)
Weights == {0 - 1, 0, 1}
\* the vertices and the weights of the graphs SpecQuery starts from
QueryIds == {"a", "b", "c", "d"}
QueryWeights == {0, 1}

None == "None"

VARIABLES
    vertices,        \* Graph.vertices: a set
    edges,           \* Graph.edges: defaultdict(list)
    weights,         \* Graph.weights: dict keyed by (start, end)
    pc,              \* "idle" | "loop" | "walk" | "done" | "raised"
    call,            \* the function called: "none" | "dijkstra" | "shortest_path"
    start_vertex,    \* argument of the running call
    end_vertex,      \* argument of the running call (None for dijkstra)
    distances,       \* local of dijkstra
    previous,        \* local of dijkstra
    already_visited, \* local of dijkstra
    n_iter,          \* iterations of dijkstra's while loop entered so far
    path,            \* local of shortest_path
    next_vertex,     \* local of shortest_path
    error,           \* the exception that ended the call, or None
    first            \* <<>>, or <<r>> for the pair r an earlier call
                     \* dijkstra(graph, start_vertex) returned

graph == <<vertices, edges, weights>>
locals == <<distances, previous, already_visited, n_iter, path, next_vertex>>
vars == <<vertices, edges, weights, pc, call, start_vertex, end_vertex,
          distances, previous, already_visited, n_iter, path, next_vertex,
          error, first>>

\* ------------------------------------------------------------ Python values
Inf == [inf |-> TRUE, val |-> 0]
Fin(n) == [inf |-> FALSE, val |-> n]

\* a slip in line 110: full_dist_this_path = graph.weights[v, neighbor]
Plus_dropsDistance(x, w) == IF x.inf THEN Inf ELSE Fin(w)

\* x + w for a distance x and an int w: math.inf + w is math.inf
Plus(x, w) == IF x.inf THEN Inf ELSE Fin(x.val + w)

\* x > y
Gt(x, y) == IF x.inf THEN ~y.inf ELSE (~y.inf /\ x.val > y.val)

\* d[k] = x on a dict d: the key is added when missing
DictSet(d, k, x) == [j \in DOMAIN d \cup {k} |-> IF j = k THEN x ELSE d[j]]

EmptyDict == [k \in {} |-> None]

\* defaultdict(list).__getitem__: a missing key is inserted with []
DefaultGet(d, k) == IF k \in DOMAIN d THEN d ELSE DictSet(d, k, <<>>)

\* ------------------------------------------------------------------ Graph
GraphInit ==
    /\ vertices = {}
    /\ edges = EmptyDict
    /\ weights = EmptyDict

NoCall ==
    /\ pc = "idle"
    /\ call = "none"
    /\ start_vertex = None
    /\ end_vertex = None
    /\ distances = EmptyDict
    /\ previous = EmptyDict
    /\ already_visited = {}
    /\ n_iter = 0
    /\ path = <<>>
    /\ next_vertex = None
    /\ error = None
    /\ first = <<>>

Init == GraphInit /\ NoCall

RECURSIVE SumLen(_, _)
SumLen(d, keys) ==
    IF keys = {} THEN 0
    ELSE LET k == CHOOSE x \in keys : TRUE
         IN Len(d[k]) + SumLen(d, keys \ {k})

\* number of add_edge calls so far: each appends one list element
NumEdges == SumLen(edges, DOMAIN edges)

add_vertex(vertex_id) ==
    /\ pc = "idle"
    /\ vertices' = vertices \cup {vertex_id}
    /\ UNCHANGED <<edges, weights, pc, call, start_vertex, end_vertex, locals,
                   error, first>>

\* the body of add_edge on the dicts ed (edges) and wt (weights): the
\* self-loop test runs `pass` and falls through to the two statements
add_edge_edges(ed, s, e) == DictSet(ed, s, Append(DefaultGet(ed, s)[s], e))
add_edge_weights(wt, s, e, w) == DictSet(wt, <<s, e>>, w)

add_edge(s, e, w) ==
    /\ pc = "idle"
    /\ NumEdges < MaxEdges
    /\ edges' = add_edge_edges(edges, s, e)
    /\ weights' = add_edge_weights(weights, s, e, w)
    /\ UNCHANGED <<vertices, pc, call, start_vertex, end_vertex, locals,
                   error, first>>

\* --------------------------------------------------------------- dijkstra
\* a slip in line 96: distances[start_vertex] = 0 left out
InitDistances_noStart(start) == [v \in vertices \cup {start} |-> Inf]

\* dict.fromkeys(list(graph.vertices), x), then (for distances) d[start] = 0
InitDistances(start) == DictSet([v \in vertices |-> Inf], start, Fin(0))
InitPrevious == [v \in vertices |-> None]

\* a slip in line 114: previous[neighbor] = v one indent to the left, outside
\* the test of line 112
RelaxOne_dedent(st, v, n, full) ==
    [st EXCEPT !.distances = IF Gt(st.distances[n], full)
                             THEN DictSet(st.distances, n, full)
                             ELSE st.distances,
               !.previous = DictSet(st.previous, n, v)]

\* the body of `if distances[neighbor] > full_dist_this_path:`
RelaxOne(st, v, n, full) ==
    IF Gt(st.distances[n], full)
    THEN [st EXCEPT !.distances = DictSet(st.distances, n, full),
                    !.previous = DictSet(st.previous, n, v)]
    ELSE st

\* `for neighbor in graph.edges[v]:` over the list nbrs, from the state st =
\* [distances, previous, error]; a KeyError of distances[neighbor] ends it
RECURSIVE Relax(_, _, _, _, _)
Relax(nbrs, v, v_dist, visited, st) ==
    IF nbrs = <<>> THEN st
    ELSE LET n == Head(nbrs)
         IN IF n \in visited THEN Relax(Tail(nbrs), v, v_dist, visited, st)
            ELSE IF n \notin DOMAIN st.distances
            THEN [st EXCEPT !.error = "KeyError"]
            ELSE Relax(Tail(nbrs), v, v_dist, visited,
                       RelaxOne(st, v, n, Plus(v_dist, weights[<<v, n>>])))

\* the set of min(set(distances.keys()) - already_visited, key=distances.get)
Unvisited == DOMAIN distances \ already_visited

\* a slip in line 105: key=distances.get left out, any unvisited key is taken
MinUnvisited_any == Unvisited

\* the keys min() may return: the unvisited ones of least distance
MinUnvisited == {v \in Unvisited : \A u \in Unvisited : ~Gt(distances[v], distances[u])}

\* a slip in line 115: already_visited.add(v) left out
Visit_forgets(v) == already_visited

\* what one iteration adds to already_visited
Visit(v) == already_visited \cup {v}

\* the loop test `while already_visited != graph.vertices`
LoopTest == already_visited /= vertices

StartDijkstra(start) ==
    /\ start_vertex' = start
    /\ distances' = InitDistances(start)
    /\ previous' = InitPrevious
    /\ already_visited' = {}
    /\ n_iter' = 0
    /\ path' = <<>>
    /\ next_vertex' = None
    /\ error' = None
    /\ pc' = "loop"
    /\ UNCHANGED graph

dijkstra_call(start) ==
    /\ pc = "idle"
    /\ call' = "dijkstra"
    /\ end_vertex' = None
    /\ first' = <<>>
    /\ StartDijkstra(start)

shortest_path_call(start, end) ==
    /\ pc = "idle"
    /\ call' = "shortest_path"
    /\ end_vertex' = end
    /\ first' = <<>>
    /\ StartDijkstra(start)

\* one iteration of the while loop whose min() finds nothing to return
dijkstra_min_fails ==
    /\ pc = "loop"
    /\ LoopTest
    /\ Unvisited = {}
    /\ n_iter' = n_iter + 1
    /\ pc' = "raised"
    /\ error' = "ValueError"
    /\ UNCHANGED <<graph, call, start_vertex, end_vertex, distances, previous,
                   already_visited, path, next_vertex, first>>

\* one iteration of the while loop, visiting v
dijkstra_iteration ==
    /\ pc = "loop"
    /\ LoopTest
    /\ \E v \in MinUnvisited :
          LET es == DefaultGet(edges, v)
              st == Relax(es[v], v, distances[v], already_visited,
                          [distances |-> distances, previous |-> previous,
                           error |-> None])
          IN /\ edges' = es
             /\ distances' = st.distances
             /\ previous' = st.previous
             /\ n_iter' = n_iter + 1
             /\ IF st.error /= None
                THEN /\ pc' = "raised"
                     /\ error' = st.error
                     /\ UNCHANGED already_visited
                ELSE /\ already_visited' = Visit(v)
                     /\ UNCHANGED <<pc, error>>
    /\ UNCHANGED <<vertices, weights, call, start_vertex, end_vertex, path,
                   next_vertex, first>>

\* `return distances, previous` to the caller of dijkstra
dijkstra_return ==
    /\ pc = "loop"
    /\ ~LoopTest
    /\ call = "dijkstra"
    /\ pc' = "done"
    /\ UNCHANGED <<graph, call, start_vertex, end_vertex, locals, error, first>>

\* dijkstra(graph, start_vertex) called again once the first call returned
dijkstra_again ==
    /\ pc = "done"
    /\ call = "dijkstra"
    /\ first = <<>>
    /\ first' = <<[distances |-> distances, previous |-> previous]>>
    /\ StartDijkstra(start_vertex)
    /\ UNCHANGED <<call, end_vertex>>

\* ---------------------------------------------------------- shortest_path
\* `return distances, previous` into shortest_path, then
\* path = [end_vertex]; next_vertex = previous[end_vertex]
shortest_path_begin ==
    /\ pc = "loop"
    /\ ~LoopTest
    /\ call = "shortest_path"
    /\ path' = <<end_vertex>>
    /\ IF end_vertex \in DOMAIN previous
       THEN /\ next_vertex' = previous[end_vertex]
            /\ pc' = "walk"
            /\ UNCHANGED error
       ELSE /\ pc' = "raised"
            /\ error' = "KeyError"
            /\ UNCHANGED next_vertex
    /\ UNCHANGED <<graph, call, start_vertex, end_vertex, distances, previous,
                   already_visited, n_iter, first>>

\* one iteration of `while next_vertex is not None`
shortest_path_iteration ==
    /\ pc = "walk"
    /\ next_vertex /= None
    /\ Len(path) < MaxPath
    /\ path' = Append(path, next_vertex)
    /\ IF next_vertex \in DOMAIN previous
       THEN /\ next_vertex' = previous[next_vertex]
            /\ UNCHANGED <<pc, error>>
       ELSE /\ pc' = "raised"
            /\ error' = "KeyError"
            /\ UNCHANGED next_vertex
    /\ UNCHANGED <<graph, call, start_vertex, end_vertex, distances, previous,
                   already_visited, n_iter, first>>

\* list.reverse()
Reverse(s) == [i \in 1..Len(s) |-> s[Len(s) + 1 - i]]

\* a slip in line 141: path.reverse() left out
WalkResult_notReversed == path

\* the result of the walk: shortest_path has no other exit
WalkResult == Reverse(path)

\* path.reverse(); return path
shortest_path_return ==
    /\ pc = "walk"
    /\ next_vertex = None
    /\ path' = WalkResult
    /\ pc' = "done"
    /\ UNCHANGED <<graph, call, start_vertex, end_vertex, distances, previous,
                   already_visited, n_iter, next_vertex, error, first>>

\* ------------------------------------------------------------ specification
Next ==
    \/ \E id \in Ids : add_vertex(id)
    \/ \E s \in Ids, e \in Ids, w \in Weights : add_edge(s, e, w)
    \/ \E s \in Ids : dijkstra_call(s)
    \/ \E s \in Ids, e \in Ids : shortest_path_call(s, e)
    \/ dijkstra_min_fails
    \/ dijkstra_iteration
    \/ dijkstra_return
    \/ dijkstra_again
    \/ shortest_path_begin
    \/ shortest_path_iteration
    \/ shortest_path_return

\* the life of a graph from Graph(): built, then queried
Spec == Init /\ [][Next]_vars

\* ------------------------------------------------- queries on a built graph
\* the graph after the add_edge calls of the list calls, each <<s, e, w>>
RECURSIVE AddEdges(_, _)
AddEdges(g, calls) ==
    IF calls = <<>> THEN g
    ELSE LET c == Head(calls)
         IN AddEdges([g EXCEPT !.edges = add_edge_edges(g.edges, c[1], c[2]),
                               !.weights = add_edge_weights(g.weights, c[1], c[2], c[3])],
                     Tail(calls))

\* the graph after add_vertex of every id of vs, then the add_edge calls
BuiltGraph(vs, calls) ==
    AddEdges([vertices |-> vs, edges |-> EmptyDict, weights |-> EmptyDict], calls)

\* the pairs of distinct vertices of QueryIds, in some fixed order
RECURSIVE PairList(_)
PairList(pairs) ==
    IF pairs = {} THEN <<>>
    ELSE LET p == CHOOSE x \in pairs : TRUE
         IN <<p>> \o PairList(pairs \ {p})

QueryPairs == PairList({p \in QueryIds \X QueryIds : p[1] /= p[2]})

\* the add_edge calls, in the order of QueryPairs, for the pairs numbered in
\* the set S with the weights f
RECURSIVE QueryCalls(_, _)
QueryCalls(S, f) ==
    IF S = {} THEN <<>>
    ELSE LET i == CHOOSE x \in S : \A y \in S : x <= y
         IN <<<<QueryPairs[i][1], QueryPairs[i][2], f[i]>>>> \o QueryCalls(S \ {i}, f)

\* the sets of at most MaxQueryEdges pairs of QueryPairs
QueryEdgeSets ==
    {S \in SUBSET (1..Len(QueryPairs)) : Cardinality(S) <= MaxQueryEdges}

\* the graph G of the notebook's TEST RUN cell
ExampleGraph ==
    BuiltGraph({"a", "b", "c", "d", "e", "f", "g", "h"},
               <<<<"a", "b", 1>>, <<"a", "c", 4>>, <<"a", "d", 3>>, <<"b", "e", 4>>,
                 <<"c", "e", 2>>, <<"d", "f", 1>>, <<"e", "f", 2>>, <<"e", "g", 3>>,
                 <<"f", "h", 1>>, <<"g", "h", 4>>>>)

\* a query starts on the TEST RUN graph or on a graph on the vertices
\* QueryIds with at most MaxQueryEdges edges, none of them a self-loop, and
\* weights of QueryWeights
InitQuery ==
    /\ \E g \in {ExampleGraph}
              \cup {BuiltGraph(QueryIds, QueryCalls(S[1], S[2])) :
                      S \in UNION {{<<T, f>> : f \in [T -> QueryWeights]} :
                                     T \in QueryEdgeSets}} :
          /\ vertices = g.vertices
          /\ edges = g.edges
          /\ weights = g.weights
    /\ NoCall

\* the queries start at "a": the graphs of InitQuery on QueryIds hold every
\* renaming of each of them, and the TEST RUN cell asks for paths from 'a'
QueryStart == "a"

NextQuery ==
    \/ dijkstra_call(QueryStart)
    \/ \E e \in vertices : shortest_path_call(QueryStart, e)
    \/ dijkstra_iteration
    \/ dijkstra_return
    \/ dijkstra_again
    \/ shortest_path_begin
    \/ shortest_path_iteration
    \/ shortest_path_return

SpecQuery == InitQuery /\ [][NextQuery]_vars

\* ------------------------------------------------------ reference notions
\* every weight stored in the graph is >= 0
NonNegative == \A p \in DOMAIN weights : weights[p] >= 0

\* both endpoints of every edge are registered vertices
EndpointsRegistered ==
    \A p \in DOMAIN weights : p[1] \in vertices /\ p[2] \in vertices

\* w is recorded in graph.edges[u]
IsEdge(u, w) ==
    /\ u \in DOMAIN edges
    /\ \E i \in 1..Len(edges[u]) : edges[u][i] = w

\* the order and the sum of distances, math.inf above every int
AtMost(x, y) == y.inf \/ (~x.inf /\ x.val <= y.val)
Sum(x, w) == [inf |-> x.inf, val |-> IF x.inf THEN 0 ELSE x.val + w]

\* a least element of a non-empty set of distances
Least(S) == CHOOSE x \in S : \A y \in S : AtMost(x, y)

\* the least summed weight of the directed paths of at most k edges from
\* start to each vertex (math.inf where there is none)
RECURSIVE PathDistances(_, _)
PathDistances(start, k) ==
    IF k = 0 THEN [v \in vertices |-> IF v = start THEN Fin(0) ELSE Inf]
    ELSE LET Step(d) ==
                 [v \in vertices |->
                    Least({d[v]} \cup {Sum(d[u], weights[<<u, v>>]) :
                                         u \in {x \in vertices : IsEdge(x, v)}})]
         IN CHOOSE f \in {Step(d) : d \in {PathDistances(start, k - 1)}} : TRUE

\* with weights >= 0 a shortest path repeats no vertex: |vertices| edges do
ShortestDistances(start) == PathDistances(start, Cardinality(vertices))

\* the vertices some directed path of at most k edges leads to from start
RECURSIVE ReachableIn(_, _)
ReachableIn(start, k) ==
    IF k = 0 THEN {start}
    ELSE LET Step(r) == r \cup {v \in vertices : \E u \in r : IsEdge(u, v)}
         IN UNION {Step(r) : r \in {ReachableIn(start, k - 1)}}

Reachable(start) == ReachableIn(start, Cardinality(vertices))

\* the summed graph.weights along the vertex sequence p
RECURSIVE PathWeight(_)
PathWeight(p) ==
    IF Len(p) < 2 THEN 0
    ELSE weights[<<p[1], p[2]>>] + PathWeight(Tail(p))

\* dijkstra has just handed (distances, previous) to its caller: the caller
\* of dijkstra_call, or shortest_path, which has made path = [end_vertex]
DijkstraReturned ==
    \/ call = "dijkstra" /\ pc = "done"
    \/ call = "shortest_path" /\ pc = "walk" /\ Len(path) = 1

\* shortest_path has handed path to its caller
ShortestPathReturned == pc = "done" /\ call = "shortest_path"

\* ----------------------------------------------------------------- claims
\* C1: on a graph whose edge endpoints are registered and whose weights are
\* non-negative, with start in graph.vertices, dijkstra returns for every
\* vertex v the least summed weight of the directed paths from start to v,
\* and math.inf (with previous[v] = None) exactly when no such path exists.
C1_DistancesAreShortest ==
    (DijkstraReturned /\ EndpointsRegistered /\ NonNegative
       /\ start_vertex \in vertices)
    => /\ DOMAIN distances = vertices
       /\ DOMAIN previous = vertices
       /\ distances = ShortestDistances(start_vertex)
       /\ {v \in vertices : distances[v] = Inf} = vertices \ Reachable(start_vertex)
       /\ \A v \in vertices : distances[v] = Inf => previous[v] = None

\* C1's case: dijkstra returned a distance below the weight of the direct
\* edge from start, and math.inf for another vertex
C1_Witness ==
    /\ DijkstraReturned /\ EndpointsRegistered /\ NonNegative
    /\ start_vertex \in vertices
    /\ \E v \in vertices :
         /\ <<start_vertex, v>> \in DOMAIN weights
         /\ ~distances[v].inf
         /\ distances[v].val < weights[<<start_vertex, v>>]
    /\ \E u \in vertices : distances[u] = Inf

\* C2: with non-negative weights and end reachable from start, shortest_path
\* returns a sequence from start to end along recorded edges whose summed
\* weights equal distances[end]
C2_PathIsShortest ==
    (ShortestPathReturned /\ EndpointsRegistered /\ NonNegative
       /\ start_vertex \in vertices /\ end_vertex \in Reachable(start_vertex))
    => /\ Len(path) >= 1
       /\ path[1] = start_vertex
       /\ path[Len(path)] = end_vertex
       /\ \A i \in 1..(Len(path) - 1) : IsEdge(path[i], path[i + 1])
       /\ distances[end_vertex] = Fin(PathWeight(path))

\* C2's case: the worked example, the path from 'a' to 'h' of weight 5
C2_Witness ==
    /\ ShortestPathReturned
    /\ vertices = ExampleGraph.vertices
    /\ start_vertex = "a" /\ end_vertex = "h"
    /\ path = <<"a", "d", "f", "h">>
    /\ distances["h"] = Fin(5)

\* C3: add_edge(v, v, weight) is rejected: graph.edges and graph.weights are
\* after the call what they were before it
C3_SelfLoopRejected ==
    [][\A v \in Ids, w \in Weights :
          add_edge(v, v, w) => UNCHANGED <<edges, weights>>]_vars

\* C4: for a registered end_vertex other than start_vertex that no directed
\* path from start_vertex leads to, shortest_path returns no sequence
C4_NoPathExists ==
    (call = "shortest_path" /\ EndpointsRegistered /\ NonNegative
       /\ start_vertex \in vertices /\ end_vertex \in vertices
       /\ end_vertex /= start_vertex
       /\ end_vertex \notin Reachable(start_vertex))
    => ~ShortestPathReturned

\* C5: with start_vertex not in graph.vertices dijkstra returns no
\* (distances, previous) pair and visits no vertex
C5_UnknownVertex ==
    (call /= "none" /\ start_vertex \notin vertices)
    => /\ ~DijkstraReturned
       /\ already_visited = {}

\* C6: a call of dijkstra or shortest_path with start and end in
\* graph.vertices leaves graph.vertices, graph.edges (its keys included) and
\* graph.weights as they were
C6_GraphUnchanged ==
    [][(/\ pc \in {"loop", "walk"}
        /\ start_vertex \in vertices
        /\ end_vertex \in vertices \cup {None})
       => UNCHANGED graph]_vars

\* C7 as claimed: two runs of dijkstra(graph, start) on a graph with
\* non-negative weights return identical distances and identical previous
\* maps, whichever vertices they pick among those tied for the minimum
C7_SameResult ==
    (pc = "done" /\ call = "dijkstra" /\ first /= <<>> /\ NonNegative
       /\ start_vertex \in vertices)
    => /\ first[1].distances = distances
       /\ first[1].previous = previous

\* C7 as amended: the two runs return identical distances; where their
\* previous maps differ at a vertex n, both name a predecessor from which
\* the edge to n gives distances[n]
C7_SameDistances ==
    (pc = "done" /\ call = "dijkstra" /\ first /= <<>> /\ NonNegative
       /\ start_vertex \in vertices)
    => /\ first[1].distances = distances
       /\ DOMAIN first[1].previous = DOMAIN previous
       /\ \A n \in DOMAIN previous :
            first[1].previous[n] /= previous[n]
            => \A v \in {first[1].previous[n], previous[n]} :
                  /\ v /= None
                  /\ IsEdge(v, n)
                  /\ distances[n] = Sum(distances[v], weights[<<v, n>>])

\* C7's case: the second run returned, and the runs broke a tie differently
C7_Witness ==
    /\ pc = "done" /\ call = "dijkstra" /\ first /= <<>> /\ NonNegative
    /\ start_vertex \in vertices
    /\ first[1].previous /= previous

\* C8: with non-negative weights and start in graph.vertices, dijkstra
\* returns distances[start] = 0 and previous[start] = None, and
\* shortest_path(graph, start, start) returns [start]
C8_StartIsZero ==
    /\ (DijkstraReturned /\ NonNegative /\ start_vertex \in vertices)
       => /\ distances[start_vertex] = Fin(0)
          /\ previous[start_vertex] = None
    /\ (ShortestPathReturned /\ NonNegative /\ start_vertex \in vertices
          /\ end_vertex = start_vertex)
       => path = <<start_vertex>>

\* C8's case: shortest_path(graph, start, start) returned on a graph with a
\* self-loop on start and an edge into start from another vertex
C8_Witness ==
    /\ ShortestPathReturned /\ NonNegative
    /\ start_vertex \in vertices /\ end_vertex = start_vertex
    /\ IsEdge(start_vertex, start_vertex)
    /\ \E u \in vertices \ {start_vertex} : IsEdge(u, start_vertex)

\* C9: with edge endpoints registered and start in graph.vertices, every
\* iteration of dijkstra's loop adds one new vertex to already_visited, which
\* stays a subset of graph.vertices; the loop can always go on, raises
\* nothing, and exits after |graph.vertices| iterations with
\* already_visited = graph.vertices
C9_LoopTerminates ==
    (call /= "none" /\ EndpointsRegistered /\ start_vertex \in vertices)
    => /\ already_visited \subseteq vertices
       /\ n_iter = Cardinality(already_visited)
       /\ (pc = "loop" /\ LoopTest) => MinUnvisited /= {}
       /\ ~(pc = "raised" /\ path = <<>>)
       /\ DijkstraReturned
          => already_visited = vertices /\ n_iter = Cardinality(vertices)

\* C9's case: dijkstra returned after three iterations on a graph of three
\* vertices with edges, one of negative weight
C9_Witness ==
    /\ pc = "done" /\ call = "dijkstra"
    /\ EndpointsRegistered /\ start_vertex \in vertices
    /\ Cardinality(vertices) = 3 /\ n_iter = 3
    /\ DOMAIN weights /= {} /\ ~NonNegative

\* the vertex reached from n by k steps along previous (None once it ends)
RECURSIVE Back(_, _)
Back(n, k) ==
    IF k = 0 \/ n = None THEN n
    ELSE Back(IF n \in DOMAIN previous THEN previous[n] ELSE None, k - 1)

\* C10: with non-negative weights and start in graph.vertices, at the end of
\* every iteration every recorded previous[n] = v has v in already_visited,
\* n in graph.edges[v] and distances[n] = distances[v] + graph.weights[(v, n)];
\* previous holds no cycle, and the walk back of shortest_path never meets a
\* vertex twice, so it ends within |graph.vertices| steps
C10_PreviousInvariant ==
    (pc \in {"loop", "walk", "done"} /\ NonNegative /\ start_vertex \in vertices)
    => /\ \A n \in DOMAIN previous :
            previous[n] /= None
            => /\ previous[n] \in already_visited
               /\ IsEdge(previous[n], n)
               /\ distances[n] = Sum(distances[previous[n]],
                                     weights[<<previous[n], n>>])
       /\ \A n \in DOMAIN previous : Back(n, Cardinality(vertices)) = None
       /\ call = "shortest_path" /\ pc \in {"walk", "done"}
          => /\ Len(path) <= Cardinality(vertices)
             /\ \A i, j \in 1..Len(path) : path[i] = path[j] => i = j
             /\ pc = "walk" => \A i \in 1..Len(path) : path[i] /= next_vertex

\* C10's case: the walk back is under way along a recorded predecessor
\* reached over an edge of weight zero
C10_Witness ==
    /\ pc = "walk" /\ NonNegative /\ start_vertex \in vertices
    /\ Len(path) >= 2
    /\ next_vertex /= None
    /\ weights[<<next_vertex, path[Len(path)]>>] = 0

====
